---- MODULE Spec2Model ----
(***************************************************************************)
(* Model of _mlir/runtime/np_to_memref.py: the conversion between numpy    *)
(* arrays and MLIR memref descriptors (ranked, zero-rank and unranked).    *)
(*                                                                         *)
(* Memory is modelled by addresses: an array or view is the record         *)
(* [data, shape, strides, dtype] that numpy keeps for it, a ctypes pointer *)
(* is [addr, type], and a ctypes structure instance is a record of its     *)
(* fields living at a heap address.                                        *)
(***************************************************************************)
EXTENDS Integers, Sequences, FiniteSets, TLC

\* ---------------------------------------------------------------- bounds
MaxRank   == 2      \* arrays of rank 0..MaxRank
MaxExtent == 2      \* every extent is in 1..MaxExtent
MaxOffset == 1      \* descriptor offsets written across the call boundary

VARIABLES
    ml_dtypes,   \* TRUE iff `import ml_dtypes` succeeded (module global)
    nparray,     \* the caller's numpy array
    descs,       \* live MemRefDescriptor instances, by heap address
    wrappers,    \* live UnrankedMemRefDescriptor instances, by heap address
    held,        \* the heap address the caller's variable refers to, or Null
    res          \* the last call and what it returned or raised

vars == <<ml_dtypes, nparray, descs, wrappers, held, res>>

\* ------------------------------------------------------- numpy data types
\* A numpy dtype: a scalar type by name, or a structured type by its fields
\* (<<field name, scalar type name>>).
NpDtype(name) == [name |-> name, fields |-> <<>>]

StructDtype(fs) == [name |-> "void", fields |-> fs]

\* dtype.itemsize of a scalar type.
ScalarSize(name) ==
    CASE name = "complex128"  -> 16
      [] name = "complex64"   -> 8
      [] name = "float64"     -> 8
      [] name = "datetime64"  -> 8
      [] name = "float32"     -> 4
      [] name = "float16"     -> 2
      [] name = "bfloat16"    -> 2
      [] name = "int16"       -> 2
      [] name = "float8_e5m2" -> 1
      [] name = "int8"        -> 1

RECURSIVE SumSeq(_)
SumSeq(s) == IF s = <<>> THEN 0 ELSE Head(s) + SumSeq(Tail(s))

\* ndarray.itemsize
itemsize(dt) ==
    IF dt.fields = <<>> THEN ScalarSize(dt.name)
    ELSE SumSeq([i \in 1..Len(dt.fields) |-> ScalarSize(dt.fields[i][2])])

\* ----------------------------------------------------------- ctypes types
\* A ctypes type: a simple type by name, or a Structure by name and _fields_
\* (<<field name, simple type name>>).
Simple(p) == [name |-> p, fields |-> <<>>]

C128 == [name |-> "C128", fields |-> << <<"real", "c_double">>, <<"imag", "c_double">> >>]

C64 == [name |-> "C64", fields |-> << <<"real", "c_float">>, <<"imag", "c_float">> >>]

F16 == [name |-> "F16", fields |-> << <<"f16", "c_int16">> >>]

BF16 == [name |-> "BF16", fields |-> << <<"bf16", "c_int16">> >>]

F8E5M2 == [name |-> "F8E5M2", fields |-> << <<"f8E5M2", "c_int8">> >>]

PrimSize(p) ==
    CASE p = "c_double" -> 8
      [] p = "c_float"  -> 4
      [] p = "c_int16"  -> 2
      [] p = "c_int8"   -> 1

\* The numpy scalar type of a simple ctypes type.
PrimDtype(p) ==
    CASE p = "c_double" -> "float64"
      [] p = "c_float"  -> "float32"
      [] p = "c_int16"  -> "int16"
      [] p = "c_int8"   -> "int8"

\* ctypes.sizeof
sizeof(ct) ==
    IF ct.fields = <<>> THEN PrimSize(ct.name)
    ELSE SumSeq([i \in 1..Len(ct.fields) |-> PrimSize(ct.fields[i][2])])

\* np.dtype(ctype): what `array.dtype == C128` compares against, and the
\* dtype np.ctypeslib.as_array gives an array of that ctype.
dtype_of_ctype(ct) ==
    IF ct.fields = <<>>
    THEN NpDtype(PrimDtype(ct.name))
    ELSE StructDtype([i \in 1..Len(ct.fields) |->
                        <<ct.fields[i][1], PrimDtype(ct.fields[i][2])>>])

\* ------------------------------------------------------ calls and results
NoException == "none"

Return(v) == [exc |-> NoException, val |-> v]

\* What a call that raised has in place of a value.
Nothing == [nothing |-> TRUE]

Raise(e) == [exc |-> e, val |-> Nothing]

\* np.ctypeslib.as_ctypes_type on a scalar dtype: its table of native types,
\* NotImplementedError for any other.
as_ctypes_type(dtp) ==
    CASE dtp = NpDtype("float64") -> Return(Simple("c_double"))
      [] dtp = NpDtype("float32") -> Return(Simple("c_float"))
      [] dtp = NpDtype("int16")   -> Return(Simple("c_int16"))
      [] dtp = NpDtype("int8")    -> Return(Simple("c_int8"))
      [] OTHER                    -> Raise("NotImplementedError")

as_ctype(dtp) ==
    IF dtp = NpDtype("complex128") THEN Return(C128)
    ELSE IF dtp = NpDtype("complex64") THEN Return(C64)
    ELSE IF dtp = NpDtype("float16") THEN Return(F16)
    ELSE IF ml_dtypes /\ dtp = NpDtype("bfloat16") THEN Return(BF16)
    ELSE IF ml_dtypes /\ dtp = NpDtype("float8_e5m2") THEN Return(F8E5M2)
    ELSE as_ctypes_type(dtp)

\* array.view(name): the same bytes under another dtype of the same itemsize.
View(array, name) == [array EXCEPT !.dtype = NpDtype(name)]

\* A faulty variant of to_numpy: the BF16 branch views the array as float16.
to_numpy_bf16_as_float16(array) ==
    IF array.dtype = dtype_of_ctype(C128) THEN Return(View(array, "complex128"))
    ELSE IF array.dtype = dtype_of_ctype(C64) THEN Return(View(array, "complex64"))
    ELSE IF array.dtype = dtype_of_ctype(F16) THEN Return(View(array, "float16"))
    ELSE IF array.dtype = dtype_of_ctype(BF16) /\ ~ml_dtypes THEN Raise("AssertionError")
    ELSE IF array.dtype = dtype_of_ctype(BF16) THEN Return(View(array, "float16"))
    ELSE IF array.dtype = dtype_of_ctype(F8E5M2) /\ ~ml_dtypes THEN Raise("AssertionError")
    ELSE IF array.dtype = dtype_of_ctype(F8E5M2) THEN Return(View(array, "float8_e5m2"))
    ELSE Return(array)

to_numpy(array) ==
    IF array.dtype = dtype_of_ctype(C128) THEN Return(View(array, "complex128"))
    ELSE IF array.dtype = dtype_of_ctype(C64) THEN Return(View(array, "complex64"))
    ELSE IF array.dtype = dtype_of_ctype(F16) THEN Return(View(array, "float16"))
    ELSE IF array.dtype = dtype_of_ctype(BF16) /\ ~ml_dtypes THEN Raise("AssertionError")
    ELSE IF array.dtype = dtype_of_ctype(BF16) THEN Return(View(array, "bfloat16"))
    ELSE IF array.dtype = dtype_of_ctype(F8E5M2) /\ ~ml_dtypes THEN Raise("AssertionError")
    ELSE IF array.dtype = dtype_of_ctype(F8E5M2) THEN Return(View(array, "float8_e5m2"))
    ELSE Return(array)

\* ------------------------------------------------------------ descriptors
\* ctypes zero-initialises a new Structure instance; a POINTER field is
\* [addr, type], NULL being address 0.
make_nd_memref_descriptor(rank, dtype) ==
    [allocated |-> 0,
     aligned   |-> [addr |-> 0, type |-> dtype],
     offset    |-> 0,
     shape     |-> [i \in 1..rank |-> 0],
     strides   |-> [i \in 1..rank |-> 0]]

make_zero_d_memref_descriptor(dtype) ==
    [allocated |-> 0,
     aligned   |-> [addr |-> 0, type |-> dtype],
     offset    |-> 0]

\* An UnrankedMemRefDescriptor instance. `objects` is the ctypes keep-alive
\* list (_objects) of the instance: the heap objects it holds a reference to.
UnrankedMemRefDescriptor(rank, descriptor, objects) ==
    [rank |-> rank, descriptor |-> descriptor, objects |-> objects]

\* A faulty variant of get_ranked_memref_descriptor: the strides are stored in bytes.
get_ranked_memref_descriptor_byte_strides(arr) ==
    LET ctp  == as_ctype(arr.dtype)
        ndim == Len(arr.shape)
    IN  IF ctp.exc # NoException THEN Raise(ctp.exc)
        ELSE IF ndim = 0
        THEN Return([make_zero_d_memref_descriptor(ctp.val) EXCEPT
                        !.allocated    = arr.data,
                        !.aligned.addr = arr.data,
                        !.offset       = 0])
        ELSE Return([make_nd_memref_descriptor(ndim, ctp.val) EXCEPT
                        !.allocated    = arr.data,
                        !.aligned.addr = arr.data,
                        !.offset       = 0,
                        !.shape        = arr.shape,
                        !.strides      = arr.strides])

\* A faulty variant of get_ranked_memref_descriptor: the shape is left as the new
\* instance has it.
get_ranked_memref_descriptor_no_shape(arr) ==
    LET ctp  == as_ctype(arr.dtype)
        ndim == Len(arr.shape)
    IN  IF ctp.exc # NoException THEN Raise(ctp.exc)
        ELSE IF ndim = 0
        THEN Return([make_zero_d_memref_descriptor(ctp.val) EXCEPT
                        !.allocated    = arr.data,
                        !.aligned.addr = arr.data,
                        !.offset       = 0])
        ELSE Return([make_nd_memref_descriptor(ndim, ctp.val) EXCEPT
                        !.allocated    = arr.data,
                        !.aligned.addr = arr.data,
                        !.offset       = 0,
                        !.strides      = [i \in 1..ndim |->
                                            arr.strides[i] \div itemsize(arr.dtype)]])

\* A faulty variant of get_ranked_memref_descriptor: a type without a layout is
\* described as raw bytes instead of failing.
get_ranked_memref_descriptor_raw_fallback(arr) ==
    LET ctp  == IF as_ctype(arr.dtype).exc # NoException
                THEN Return(Simple("c_int8")) ELSE as_ctype(arr.dtype)
        ndim == Len(arr.shape)
    IN  IF ndim = 0
        THEN Return([make_zero_d_memref_descriptor(ctp.val) EXCEPT
                        !.allocated    = arr.data,
                        !.aligned.addr = arr.data,
                        !.offset       = 0])
        ELSE Return([make_nd_memref_descriptor(ndim, ctp.val) EXCEPT
                        !.allocated    = arr.data,
                        !.aligned.addr = arr.data,
                        !.offset       = 0,
                        !.shape        = arr.shape,
                        !.strides      = [i \in 1..ndim |->
                                            arr.strides[i] \div itemsize(arr.dtype)]])

get_ranked_memref_descriptor(arr) ==
    LET ctp  == as_ctype(arr.dtype)
        ndim == Len(arr.shape)
    IN  IF ctp.exc # NoException THEN Raise(ctp.exc)
        ELSE IF ndim = 0
        THEN Return([make_zero_d_memref_descriptor(ctp.val) EXCEPT
                        !.allocated    = arr.data,
                        !.aligned.addr = arr.data,
                        !.offset       = 0])
        ELSE Return([make_nd_memref_descriptor(ndim, ctp.val) EXCEPT
                        !.allocated    = arr.data,
                        !.aligned.addr = arr.data,
                        !.offset       = 0,
                        !.shape        = arr.shape,
                        !.strides      = [i \in 1..ndim |->
                                            arr.strides[i] \div itemsize(arr.dtype)]])

\* A faulty variant of get_unranked_memref_descriptor: d.descriptor is given the bare
\* address of x, so d holds no reference to x.
get_unranked_memref_descriptor_no_keepalive(arr, px) ==
    LET x == get_ranked_memref_descriptor(arr)
    IN  IF x.exc # NoException THEN Raise(x.exc)
        ELSE Return([d |-> UnrankedMemRefDescriptor(Len(arr.shape), px, {}),
                     x |-> x.val])

\* `px` is the heap address of the ranked descriptor x, the value of
\* ctypes.pointer(x). Assigning the cast pointer to d.descriptor stores the
\* address and puts the pointer's keep-alive list, which holds x, into d's.
get_unranked_memref_descriptor(arr, px) ==
    LET x == get_ranked_memref_descriptor(arr)
    IN  IF x.exc # NoException THEN Raise(x.exc)
        ELSE Return([d |-> UnrankedMemRefDescriptor(Len(arr.shape), px, {px}),
                     x |-> x.val])

\* A faulty variant of move_aligned_ptr_by_offset: the offset is added as bytes.
move_aligned_ptr_by_byte_offset(aligned_ptr, offset) ==
    [addr |-> aligned_ptr.addr + offset, type |-> aligned_ptr.type]

move_aligned_ptr_by_offset(aligned_ptr, offset) ==
    LET aligned_addr == aligned_ptr.addr
        elem_size    == sizeof(aligned_ptr.type)
        shift        == offset * elem_size
    IN  [addr |-> aligned_addr + shift, type |-> aligned_ptr.type]

\* ------------------------------------------------------ reverse conversion
NullPtr == [addr |-> 0, type |-> Simple("c_int8")]

Raised(e, ptr) == [exc |-> e, val |-> Nothing, ptr |-> ptr]

Product(s) == LET RECURSIVE P(_)
                  P(t) == IF t = <<>> THEN 1 ELSE Head(t) * P(Tail(t))
              IN  P(s)

\* np.ctypeslib.as_array(content_ptr, shape=shape): a C-contiguous array of
\* the pointer's element type at the pointer's address.
as_array(content_ptr, shape) ==
    LET dt == dtype_of_ctype(content_ptr.type)
    IN  [data    |-> content_ptr.addr,
         shape   |-> shape,
         strides |-> [i \in 1..Len(shape) |->
                        itemsize(dt) * Product(SubSeq(shape, i + 1, Len(shape)))],
         dtype   |-> dt]

\* np.lib.stride_tricks.as_strided(x, shape, strides)
as_strided(x, shape, strides) == [x EXCEPT !.shape = shape, !.strides = strides]

\* ranked_memref[0] is the descriptor instance the pointer refers to; an
\* instance of the zero-rank descriptor type has no attribute `shape`.
ranked_memref_to_numpy(ranked_memref) ==
    LET content_ptr == move_aligned_ptr_by_offset(ranked_memref.aligned,
                                                  ranked_memref.offset)
    IN  IF "shape" \notin DOMAIN ranked_memref
        THEN Raised("AttributeError", content_ptr)
        ELSE LET np_arr      == as_array(content_ptr, ranked_memref.shape)
                 strided_arr == as_strided(np_arr, ranked_memref.shape,
                                    [i \in 1..Len(ranked_memref.strides) |->
                                        ranked_memref.strides[i] * itemsize(np_arr.dtype)])
                 out         == to_numpy(strided_arr)
             IN  [exc |-> out.exc, val |-> out.val, ptr |-> content_ptr]

\* The words of a descriptor instance after its offset field.
TrailingWords(x) == IF "shape" \in DOMAIN x THEN x.shape \o x.strides ELSE <<>>

\* ctypes.cast(p, POINTER(descriptor))[0]: the pointee's memory read as a
\* descriptor of the given rank and element type.
CastDescriptor(x, rank, ctp) ==
    [allocated |-> x.allocated,
     aligned   |-> [addr |-> x.aligned.addr, type |-> ctp],
     offset    |-> x.offset,
     shape     |-> SubSeq(TrailingWords(x), 1, rank),
     strides   |-> SubSeq(TrailingWords(x), rank + 1, 2 * rank)]

\* `pointee` is the descriptor instance found at unranked_memref[0].descriptor.
unranked_memref_to_numpy(unranked_memref, pointee, np_dtype) ==
    LET ctp == as_ctype(np_dtype)
    IN  IF ctp.exc # NoException THEN Raised(ctp.exc, NullPtr)
        ELSE LET val         == CastDescriptor(pointee, unranked_memref.rank, ctp.val)
                 content_ptr == move_aligned_ptr_by_offset(val.aligned, val.offset)
                 np_arr      == as_array(content_ptr, val.shape)
                 strided_arr == as_strided(np_arr, val.shape,
                                    [i \in 1..Len(val.strides) |->
                                        val.strides[i] * itemsize(np_arr.dtype)])
                 out         == to_numpy(strided_arr)
             IN  [exc |-> out.exc, val |-> out.val, ptr |-> content_ptr]

\* ----------------------------------------------------------------- inputs
DTypeNames ==
    {"complex128", "complex64", "float16", "bfloat16", "float8_e5m2",
     "float64", "int16", "int8", "datetime64"}

Shapes == UNION {[1..r -> 1..MaxExtent] : r \in 0..MaxRank}

\* How the array came to be, which fixes nparray.strides (in bytes):
\* np.empty(shape) in C or Fortran order, a[::-1, ...] (negative strides),
\* np.broadcast_to(scalar, shape) (zero strides), a[::2, ...] of an array
\* twice as large, and a field of a packed record array whose records are
\* one byte larger than the field (strides no multiple of the itemsize).
Layouts == {"c_contiguous", "f_contiguous", "reversed", "broadcast", "stepped", "packed"}

CStrides(shape, sz) ==
    [i \in 1..Len(shape) |-> sz * Product(SubSeq(shape, i + 1, Len(shape)))]

FStrides(shape, sz) ==
    [i \in 1..Len(shape) |-> sz * Product(SubSeq(shape, 1, i - 1))]

StridesOf(layout, shape, sz) ==
    CASE layout = "c_contiguous" -> CStrides(shape, sz)
      [] layout = "f_contiguous" -> FStrides(shape, sz)
      [] layout = "reversed"     -> [i \in 1..Len(shape) |-> 0 - CStrides(shape, sz)[i]]
      [] layout = "broadcast"    -> [i \in 1..Len(shape) |-> 0]
      [] layout = "stepped"      ->
            [i \in 1..Len(shape) |->
                2 * CStrides([j \in 1..Len(shape) |-> 2 * shape[j]], sz)[i]]
      [] layout = "packed"       -> CStrides(shape, sz + 1)

\* nparray.ctypes.data: the address of element [0, ..., 0].
DataOf(layout, shape, sz, base) ==
    IF layout = "reversed"
    THEN base + SumSeq([i \in 1..Len(shape) |-> (shape[i] - 1) * CStrides(shape, sz)[i]])
    ELSE base

MakeArray(name, shape, layout, base) ==
    [data    |-> DataOf(layout, shape, ScalarSize(name), base),
     shape   |-> shape,
     strides |-> StridesOf(layout, shape, ScalarSize(name)),
     dtype   |-> NpDtype(name)]

Buffers == {4096}

\* A 2x3 row-major array of 8-byte floats.
ExampleArray ==
    [data |-> 4096, shape |-> <<2, 3>>, strides |-> <<24, 8>>, dtype |-> NpDtype("float64")]

Arrays ==
    {MakeArray(n, sh, l, b) : n \in DTypeNames, sh \in Shapes, l \in Layouts, b \in Buffers}
    \cup {ExampleArray}

\* ------------------------------------------------------------------- heap
Null == "null"

HeapAddrs == {"h1", "h2"}

EmptyHeap == [a \in {} |-> a]

Alloc(used) == CHOOSE a \in HeapAddrs \ used : TRUE

\* The objects a reference to `h` keeps alive: h and its keep-alive list.
Live(ws, h) ==
    IF h = Null THEN {}
    ELSE {h} \cup (IF h \in DOMAIN ws THEN ws[h].objects ELSE {})

Restrict(f, S) == [a \in DOMAIN f \cap S |-> f[a]]

\* What a call leaves in `res`.
Result(op, exc, dtype, arg, ptr, val, at) ==
    [op |-> op, exc |-> exc, dtype |-> dtype, arg |-> arg, ptr |-> ptr,
     val |-> val, at |-> at]

Init ==
    /\ ml_dtypes \in BOOLEAN
    /\ nparray \in Arrays
    /\ descs = EmptyHeap
    /\ wrappers = EmptyHeap
    /\ held = Null
    /\ res = Result("import", NoException, nparray.dtype, Nothing, NullPtr, Nothing, Null)

\* ---------------------------------------------------------------- actions
\* v = get_ranked_memref_descriptor(nparray): on return v refers to the new
\* descriptor and what v referred to before is released; an exception
\* leaves v as it was.
GetRanked ==
    LET x == get_ranked_memref_descriptor(nparray)
        a == Alloc({})
    IN  IF x.exc # NoException
        THEN /\ res' = Result("get_ranked_memref_descriptor", x.exc, nparray.dtype,
                              Nothing, NullPtr, Nothing, Null)
             /\ UNCHANGED <<ml_dtypes, nparray, descs, wrappers, held>>
        ELSE /\ descs' = [h \in {a} |-> x.val]
             /\ wrappers' = EmptyHeap
             /\ held' = a
             /\ res' = Result("get_ranked_memref_descriptor", NoException, nparray.dtype,
                              Nothing, NullPtr, Nothing, a)
             /\ UNCHANGED <<ml_dtypes, nparray>>

\* v = get_unranked_memref_descriptor(nparray): the wrapper d and the ranked
\* descriptor x are allocated; on return the local x goes out of scope and
\* only what d keeps alive survives.
GetUnranked ==
    LET px == Alloc({})
        pd == Alloc({px})
        r  == get_unranked_memref_descriptor(nparray, px)
    IN  IF r.exc # NoException
        THEN /\ res' = Result("get_unranked_memref_descriptor", r.exc, nparray.dtype,
                              Nothing, NullPtr, Nothing, Null)
             /\ UNCHANGED <<ml_dtypes, nparray, descs, wrappers, held>>
        ELSE LET ws == [h \in {pd} |-> r.val.d]
                 ds == [h \in {px} |-> r.val.x]
             IN  /\ wrappers' = ws
                 /\ descs' = Restrict(ds, Live(ws, pd))
                 /\ held' = pd
                 /\ res' = Result("get_unranked_memref_descriptor", NoException,
                                  nparray.dtype, Nothing, NullPtr, Nothing, pd)
                 /\ UNCHANGED <<ml_dtypes, nparray>>

\* ranked_memref_to_numpy(ctypes.pointer(v)) on the held ranked descriptor.
RankedToNumpy ==
    /\ held \in DOMAIN descs
    /\ LET r == ranked_memref_to_numpy(descs[held])
       IN  res' = Result("ranked_memref_to_numpy", r.exc, nparray.dtype,
                         descs[held], r.ptr, r.val, Null)
    /\ UNCHANGED <<ml_dtypes, nparray, descs, wrappers, held>>

\* What the word at unranked_memref[0].descriptor holds: the descriptor
\* instance while it is alive and as large as the cast type, anything else
\* once its memory was released or when the read runs past it.
Pointees(w) ==
    IF /\ w.descriptor \in DOMAIN descs
       /\ Len(TrailingWords(descs[w.descriptor])) >= 2 * w.rank
    THEN {descs[w.descriptor]}
    ELSE {[make_nd_memref_descriptor(w.rank, Simple("c_int8")) EXCEPT
              !.aligned.addr = p, !.offset = k]
            : p \in Buffers, k \in (0 - MaxOffset)..MaxOffset}

\* unranked_memref_to_numpy(ctypes.pointer(v), np_dtype) on the held wrapper.
UnrankedToNumpy(np_dtype) ==
    /\ held \in DOMAIN wrappers
    /\ \E pointee \in Pointees(wrappers[held]) :
         LET r == unranked_memref_to_numpy(wrappers[held], pointee, np_dtype)
         IN  res' = Result("unranked_memref_to_numpy", r.exc, np_dtype,
                           pointee, r.ptr, r.val, Null)
    /\ UNCHANGED <<ml_dtypes, nparray, descs, wrappers, held>>

\* The types the caller names for the view: those of the array's element
\* width (the wrapper carries no element type of its own).
ViewDTypeNames == {n \in DTypeNames : ScalarSize(n) = itemsize(nparray.dtype)}

\* The descriptor instance the caller's variable leads to.
HeldDescriptor ==
    IF held \in DOMAIN wrappers THEN wrappers[held].descriptor ELSE held

\* The compiled function the descriptor is passed to writes the offset of
\* the memref it returns in it.
InvokeWritesOffset(k) ==
    /\ HeldDescriptor \in DOMAIN descs
    /\ descs[HeldDescriptor].offset # k
    /\ descs' = [descs EXCEPT ![HeldDescriptor].offset = k]
    /\ res' = Result("invoke", NoException, nparray.dtype, Nothing, NullPtr, Nothing, Null)
    /\ UNCHANGED <<ml_dtypes, nparray, wrappers, held>>

\* The caller instantiates a descriptor type of its own choice of element
\* type over the array's buffer: v = make_nd_memref_descriptor(ndim, ctp)()
\* (make_zero_d_memref_descriptor(ctp)() for ndim = 0), then fills it in.
CtypesOfSize(sz) ==
    {ct \in {C128, C64, F16, BF16, F8E5M2, Simple("c_double"), Simple("c_float"),
             Simple("c_int16"), Simple("c_int8")} : sizeof(ct) = sz}

BuildDescriptor(ctp) ==
    LET ndim == Len(nparray.shape)
        a    == Alloc({})
        x    == IF ndim = 0
                THEN [make_zero_d_memref_descriptor(ctp) EXCEPT
                        !.allocated = nparray.data, !.aligned.addr = nparray.data]
                ELSE [make_nd_memref_descriptor(ndim, ctp) EXCEPT
                        !.allocated = nparray.data, !.aligned.addr = nparray.data,
                        !.shape = nparray.shape,
                        !.strides = [i \in 1..ndim |-> nparray.strides[i] \div sizeof(ctp)]]
    IN  /\ descs' = [h \in {a} |-> x]
        /\ wrappers' = EmptyHeap
        /\ held' = a
        /\ res' = Result("make_memref_descriptor", NoException, nparray.dtype,
                         Nothing, NullPtr, Nothing, a)
        /\ UNCHANGED <<ml_dtypes, nparray>>

\* del v
Release ==
    /\ held # Null
    /\ held' = Null
    /\ descs' = EmptyHeap
    /\ wrappers' = EmptyHeap
    /\ res' = Result("del", NoException, nparray.dtype, Nothing, NullPtr, Nothing, Null)
    /\ UNCHANGED <<ml_dtypes, nparray>>

Next ==
    \/ GetRanked
    \/ GetUnranked
    \/ RankedToNumpy
    \/ \E n \in ViewDTypeNames : UnrankedToNumpy(NpDtype(n))
    \/ \E k \in (0 - MaxOffset)..MaxOffset : InvokeWritesOffset(k)
    \/ \E ctp \in CtypesOfSize(itemsize(nparray.dtype)) : BuildDescriptor(ctp)
    \/ Release

Spec == Init /\ [][Next]_vars

\* ================================================================= claims
ForwardOps == {"get_ranked_memref_descriptor", "get_unranked_memref_descriptor"}

ReverseOps == {"ranked_memref_to_numpy", "unranked_memref_to_numpy"}

\* The logical element types the registry recognises.
SupportedNames ==
    {"complex128", "complex64", "float16", "float64", "int16", "int8"}
    \cup (IF ml_dtypes THEN {"bfloat16", "float8_e5m2"} ELSE {})

ExtendedNames == {"bfloat16", "float8_e5m2"}

Rank == Len(nparray.shape)

ZeroRankFields == {"allocated", "aligned", "offset"}

\* The call just made was ranked_memref_to_numpy on the descriptor that
\* get_ranked_memref_descriptor(nparray) returns, as it returned it.
RankedRoundTrip ==
    /\ res.op = "ranked_memref_to_numpy"
    /\ get_ranked_memref_descriptor(nparray).exc = NoException
    /\ res.arg = get_ranked_memref_descriptor(nparray).val

\* The call just made was unranked_memref_to_numpy with nparray's own dtype
\* on a wrapper of the descriptor as the forward conversion filled it.
UnrankedRoundTrip ==
    /\ res.op = "unranked_memref_to_numpy"
    /\ res.dtype = nparray.dtype
    /\ get_ranked_memref_descriptor(nparray).exc = NoException
    /\ res.arg = get_ranked_memref_descriptor(nparray).val

\* All index tuples of a shape (0-based) and the address of an element.
Indices(shape) == {idx \in [1..Len(shape) -> 0..SumSeq(shape)] :
                        \A i \in 1..Len(shape) : idx[i] < shape[i]}

ElemAddr(a, idx) == a.data + SumSeq([i \in 1..Len(idx) |-> idx[i] * a.strides[i]])

\* C1 (original statement): for every supported element type and every
\* array of rank >= 0, ranked_memref_to_numpy of the descriptor that
\* get_ranked_memref_descriptor returns succeeds with a view of the same
\* shape, byte strides, element type and element addresses as the array
\* (so each aliases the other's elements).
C1_RoundTripIdentity ==
    (RankedRoundTrip /\ nparray.dtype.name \in SupportedNames) =>
        /\ res.exc = NoException
        /\ res.val.shape = nparray.shape
        /\ res.val.strides = nparray.strides
        /\ res.val.dtype = nparray.dtype
        /\ \A idx \in Indices(nparray.shape) :
              ElemAddr(res.val, idx) = ElemAddr(nparray, idx)

\* C2 (original statement): for any array, whatever its byte strides, the
\* element strides the forward conversion stores, times the itemsize, are
\* the array's byte strides, and the reverse conversion rebuilds them.
StrideInversion ==
    /\ (res.op = "get_ranked_memref_descriptor" /\ res.exc = NoException /\ Rank >= 1) =>
          \A i \in 1..Rank :
              descs[res.at].strides[i] * itemsize(nparray.dtype) = nparray.strides[i]
    /\ (RankedRoundTrip /\ res.exc = NoException) =>
          res.val.strides = nparray.strides

C2_StrideInversion_Original == StrideInversion

StridesAreElementMultiples ==
    \A i \in 1..Rank : nparray.strides[i] % itemsize(nparray.dtype) = 0

\* C2 (amended): for any array whose byte strides are each an integer
\* multiple of the itemsize (negative and zero strides included), the stored
\* element strides times the itemsize are the array's byte strides, and the
\* reverse conversion rebuilds them.
C2_StrideInversion ==
    StridesAreElementMultiples => StrideInversion

C2_Witness ==
    /\ nparray = ExampleArray
    /\ RankedRoundTrip
    /\ res.exc = NoException
    /\ res.arg.strides = <<3, 1>>
    /\ res.val.strides = <<24, 8>>

\* C3: both reverse conversions build the view at the aligned pointer's
\* address plus offset times the size of the pointer's element type, and
\* the moved pointer keeps that element type.
C3_OffsetScaling ==
    /\ res.op = "ranked_memref_to_numpy" =>
          /\ res.ptr.addr = res.arg.aligned.addr
                              + res.arg.offset * sizeof(res.arg.aligned.type)
          /\ res.ptr.type = res.arg.aligned.type
          /\ res.exc = NoException => res.val.data = res.ptr.addr
    /\ (res.op = "unranked_memref_to_numpy" /\ as_ctype(res.dtype).exc = NoException) =>
          /\ res.ptr.addr = res.arg.aligned.addr
                              + res.arg.offset * sizeof(as_ctype(res.dtype).val)
          /\ res.ptr.type = as_ctype(res.dtype).val
          /\ res.exc = NoException => res.val.data = res.ptr.addr

C3_Witness ==
    /\ res.op = "unranked_memref_to_numpy"
    /\ res.exc = NoException
    /\ res.dtype = NpDtype("complex128")
    /\ res.arg.offset = 0 - MaxOffset
    /\ res.val.data = nparray.data - MaxOffset * 16

\* C4 (original statement): the forward conversion of a 0-dimensional array
\* returns a descriptor with the fields allocated, aligned and offset only,
\* and ranked_memref_to_numpy of that descriptor succeeds with a
\* 0-dimensional view of the same element.
C4_RankZeroPath ==
    /\ (res.op = "get_ranked_memref_descriptor" /\ res.exc = NoException /\ Rank = 0) =>
          DOMAIN descs[res.at] = ZeroRankFields
    /\ (RankedRoundTrip /\ Rank = 0) =>
          /\ res.exc = NoException
          /\ res.val.shape = <<>>
          /\ res.val.data = nparray.data

\* C5 (original statement): for every array of any rank, the unranked round
\* trip with the array's own element type has the outcome of the ranked
\* round trip: both fail, or both succeed with equal shape, byte strides,
\* start address and element type.
C5_UnrankedConsistency ==
    UnrankedRoundTrip =>
        LET ranked == ranked_memref_to_numpy(get_ranked_memref_descriptor(nparray).val)
        IN  /\ (res.exc = NoException) <=> (ranked.exc = NoException)
            /\ res.exc = NoException =>
                  /\ res.val.shape = ranked.val.shape
                  /\ res.val.strides = ranked.val.strides
                  /\ res.val.data = ranked.val.data
                  /\ res.val.dtype = ranked.val.dtype

\* The failure of a type with no layout mapping, and the failure that tells
\* the user to install ml_dtypes.
UnsupportedDtype == "NotImplementedError"

MissingExtendedTypeSupport == "AssertionError"

\* C6 (original statement): without ml_dtypes, as_ctype of bfloat16 or
\* float8_e5m2 and to_numpy of a BF16 or F8E5M2 array each fail with the
\* dedicated missing-package error, never with the failure of an
\* unsupported type and never by returning a layout or view.
C6_MissingRegistryFailure ==
    ~ml_dtypes =>
        /\ (res.op \in ForwardOps \cup {"unranked_memref_to_numpy"}
              /\ res.dtype.name \in ExtendedNames) =>
                 res.exc = MissingExtendedTypeSupport
        /\ (res.op = "ranked_memref_to_numpy"
              /\ "shape" \in DOMAIN res.arg
              /\ res.arg.aligned.type \in {BF16, F8E5M2}) =>
                 res.exc = MissingExtendedTypeSupport

\* C7: with ml_dtypes, every supported type has a layout, different types
\* have different layouts, and a reverse conversion through the layout of T
\* gives a view of type T over the same bytes (element size unchanged); a
\* native layout comes back as the native type.
C7_TypeMappingRoundTrip ==
    ml_dtypes =>
        /\ \A t \in SupportedNames : as_ctype(NpDtype(t)).exc = NoException
        /\ \A t, u \in SupportedNames :
              t # u => as_ctype(NpDtype(t)).val # as_ctype(NpDtype(u)).val
        /\ \A t \in SupportedNames :
              (\/ /\ res.op = "ranked_memref_to_numpy"
                  /\ "shape" \in DOMAIN res.arg
                  /\ res.arg.aligned.type = as_ctype(NpDtype(t)).val
               \/ /\ res.op = "unranked_memref_to_numpy"
                  /\ res.dtype = NpDtype(t)) =>
                    /\ res.exc = NoException
                    /\ res.val.dtype = NpDtype(t)
                    /\ res.val.data = res.ptr.addr
                    /\ itemsize(res.val.dtype) = sizeof(res.ptr.type)
                    /\ res.ptr.type.fields = <<>> =>
                          res.val.dtype = dtype_of_ctype(res.ptr.type)

C7_Witness ==
    /\ ml_dtypes
    /\ nparray.dtype = NpDtype("bfloat16")
    /\ RankedRoundTrip
    /\ res.exc = NoException
    /\ res.arg.aligned.type = BF16
    /\ res.val.dtype = NpDtype("bfloat16")

\* C8: every unranked wrapper has the array's rank and points to a live
\* ranked descriptor filled in from the array, which stays alive as long as
\* the wrapper does; a later unranked_memref_to_numpy reads that descriptor.
C8_UnrankedDescriptorValidity ==
    /\ \A h \in DOMAIN wrappers :
          /\ wrappers[h].rank = Rank
          /\ wrappers[h].descriptor \in DOMAIN descs
          /\ LET x == descs[wrappers[h].descriptor]
                 f == get_ranked_memref_descriptor(nparray).val
             IN  [x EXCEPT !.offset = 0] = f
    /\ (res.op = "get_unranked_memref_descriptor" /\ res.exc = NoException) =>
          /\ res.at \in DOMAIN wrappers
          /\ descs[wrappers[res.at].descriptor] = get_ranked_memref_descriptor(nparray).val
    /\ res.op = "unranked_memref_to_numpy" =>
          /\ held \in DOMAIN wrappers
          /\ wrappers[held].descriptor \in DOMAIN descs
          /\ res.arg = descs[wrappers[held].descriptor]

C8_Witness ==
    /\ res.op = "unranked_memref_to_numpy"
    /\ res.exc = NoException
    /\ Rank = MaxRank
    /\ res.arg.offset # 0
    /\ "shape" \in DOMAIN res.arg
    /\ res.arg.shape = nparray.shape

\* C9: the descriptor get_ranked_memref_descriptor returns for an array of a
\* supported type has allocated and aligned at the array's data address and
\* offset 0, and for rank r >= 1 the array's shape in order, with shape and
\* strides of length r.
C9_ForwardPopulation ==
    res.op = "get_ranked_memref_descriptor" =>
        /\ nparray.dtype.name \in SupportedNames => res.exc = NoException
        /\ res.exc = NoException =>
              LET x == descs[res.at]
              IN  /\ x.allocated = nparray.data
                  /\ x.aligned.addr = nparray.data
                  /\ x.offset = 0
                  /\ Rank >= 1 =>
                        /\ x.shape = nparray.shape
                        /\ Len(x.shape) = Rank
                        /\ Len(x.strides) = Rank

C9_Witness ==
    /\ res.op = "get_ranked_memref_descriptor"
    /\ res.exc = NoException
    /\ nparray.shape = <<1, 2>>
    /\ descs[res.at].shape = <<1, 2>>
    /\ descs[res.at].allocated = nparray.data

\* C10: when the element type has no layout, each of the three conversions
\* that start with as_ctype fails with as_ctype's failure, returns nothing,
\* and leaves the heap, the caller's variable and the array as they were.
C10_FailFast ==
    [][ (/\ res'.op \in ForwardOps \cup {"unranked_memref_to_numpy"}
         /\ as_ctype(res'.dtype).exc # NoException) =>
            /\ res'.exc = as_ctype(res'.dtype).exc
            /\ descs' = descs
            /\ wrappers' = wrappers
            /\ held' = held
            /\ nparray' = nparray
            /\ res'.val = Nothing
            /\ res'.at = Null ]_vars

C10_Witness ==
    /\ res.op = "get_unranked_memref_descriptor"
    /\ res.exc = UnsupportedDtype
    /\ nparray.dtype = NpDtype("datetime64")
    /\ held \in DOMAIN descs
    /\ res.val = Nothing
    /\ res.at = Null

====
